---- MODULE Spec2Model ----
(***************************************************************************)
(* A model of the expression calculator of calc_1.py: the regex tokenizer, *)
(* the recursive-descent Parser with its cursor fields, the tree-walking   *)
(* Evaluator and the Calculator facade.                                    *)
(*                                                                         *)
(* Text is a sequence of one-character strings.  A Python float is         *)
(* modelled by an abstract number:                                         *)
(*   [k |-> "num", n, d]   the rational n/d (lowest terms, d > 0);         *)
(*                         float rounding is not modelled                  *)
(*   [k |-> "flt", s, e]   a finite float x whose value is not tracked,    *)
(*                         |x| <= 2^e; s = "pos"/"neg"/"nz": non-zero (of  *)
(*                         that sign / of unknown sign) and |x| >= 2^-e;   *)
(*                         s = "any": sign unknown, possibly zero          *)
(*   [k |-> "inf", s]      +inf / -inf                                     *)
(*   [k |-> "nan"]         not-a-number                                    *)
(*   [k |-> "complex"]     a Python complex (not a float)                  *)
(*   [k |-> "unk"]         the abstraction cannot tell what the code       *)
(*                         produces here (a value of any kind, or an       *)
(*                         exception)                                      *)
(***************************************************************************)
EXTENDS Integers, Sequences, FiniteSets, TLC

(***************************************************************************)
(* Bounds of the model.                                                    *)
(***************************************************************************)
\* largest numerator / denominator tracked exactly
MaxExact == 30000

(***************************************************************************)
(* Abstract numbers.                                                       *)
(***************************************************************************)
Abs(i) == IF i < 0 THEN -i ELSE i

Max(a, b) == IF a >= b THEN a ELSE b

RECURSIVE GCD(_, _)
GCD(a, b) == IF b = 0 THEN a ELSE GCD(b, a % b)

Num(n, d) == [k |-> "num", n |-> n, d |-> d]
Flt(s, e) == [k |-> "flt", s |-> s, e |-> e]
Inf(s) == [k |-> "inf", s |-> s]
NaN == [k |-> "nan"]
Complex == [k |-> "complex"]
Unk == [k |-> "unk"]

\* the float holding n/d (d # 0): exact while it fits the tracked range
Rat(n, d) ==
    LET g == GCD(Abs(n), Abs(d))
        nn == (IF d < 0 THEN -n ELSE n) \div g
        dd == Abs(d) \div g
    IN  IF Abs(nn) <= MaxExact /\ dd <= MaxExact THEN Num(nn, dd)
        ELSE Flt(IF nn < 0 THEN "neg" ELSE "pos", 31)

IsNum(v) == v.k = "num"
IsZero(v) == v.k = "num" /\ v.n = 0
\* the float is known to be < 0, > 0
IsNeg(v) == \/ v.k = "num" /\ v.n < 0
            \/ v.k \in {"flt", "inf"} /\ v.s = "neg"
IsPos(v) == \/ v.k = "num" /\ v.n > 0
            \/ v.k \in {"flt", "inf"} /\ v.s = "pos"
\* an exactly tracked integer
IsInt(v) == v.k = "num" /\ v.d = 1
FlipSign(s) == CASE s = "pos" -> "neg" [] s = "neg" -> "pos" [] OTHER -> s
\* a finite float within the normal range of a double, else not tracked
Fin(s, e) == IF e <= 1020 THEN Flt(s, e) ELSE Unk

(***************************************************************************)
(* Exceptions and tokens.                                                  *)
(***************************************************************************)
Exc(type, msg) == [exc |-> type, msg |-> msg]
IsExc(r) == "exc" \in DOMAIN r

Token(type, value) == [type |-> type, value |-> value]
None == [type |-> "None"]

Digits == {"0", "1", "2", "3", "4", "5", "6", "7", "8", "9"}
DigitVal(c) ==
    CASE c = "0" -> 0 [] c = "1" -> 1 [] c = "2" -> 2 [] c = "3" -> 3
      [] c = "4" -> 4 [] c = "5" -> 5 [] c = "6" -> 6 [] c = "7" -> 7
      [] c = "8" -> 8 [] c = "9" -> 9

Operators == {"+", "-", "*", "/", "%", "^"}
_functions == <<
    <<"s", "i", "n">>, <<"c", "o", "s">>, <<"t", "g">>, <<"c", "t", "g">>,
    <<"l", "n">>, <<"e", "x", "p">>, <<"s", "q", "r", "t">>,
    <<"a", "r", "c", "t", "a", "n">> >>
ConstantNames == << <<"p", "i">>, <<"e">> >>
Skip == {" ", "\t", "\n"}

RECURSIVE Join(_)
Join(chars) == IF chars = <<>> THEN "" ELSE Head(chars) \o Join(Tail(chars))

\* the word lies in the text at position i
StartsWith(text, i, word) ==
    /\ text[i] = word[1]
    /\ i + Len(word) - 1 <= Len(text)
    /\ SubSeq(text, i, i + Len(word) - 1) = word

\* the first alternative of an ordered alternation that matches at i, or <<>>
RECURSIVE FirstMatch(_, _, _)
FirstMatch(text, i, words) ==
    IF words = <<>> THEN <<>>
    ELSE IF StartsWith(text, i, Head(words)) THEN Head(words)
    ELSE FirstMatch(text, i, Tail(words))

\* the end (exclusive) of the run of digits starting at i
RECURSIVE DigitsEnd(_, _)
DigitsEnd(text, i) ==
    IF i <= Len(text) /\ text[i] \in Digits THEN DigitsEnd(text, i + 1) ELSE i

(***************************************************************************)
(* Parser.tokenize: the NUMBER pattern (digits, an optional "." with       *)
(* optional digits, an optional exponent e/E with optional sign and        *)
(* digits) and float() of the matched text.                                *)
(***************************************************************************)
\* the end (exclusive) of the NUMBER match that starts at the digit text[i]
NumberEnd(text, i) ==
    LET a == DigitsEnd(text, i)
        b == IF a <= Len(text) /\ text[a] = "." THEN DigitsEnd(text, a + 1) ELSE a
        s == IF b + 1 <= Len(text) /\ text[b + 1] \in {"+", "-"} THEN b + 2 ELSE b + 1
        c == DigitsEnd(text, s)
    IN  IF b <= Len(text) /\ text[b] \in {"e", "E"} /\ c > s THEN c ELSE b

\* the digits as a natural number, as far as it stays within MaxExact: the
\* digits after the one that takes it above MaxExact are not read
RECURSIVE NatOf(_, _)
NatOf(digits, acc) ==
    IF digits = <<>> \/ acc > MaxExact THEN acc
    ELSE NatOf(Tail(digits), acc * 10 + DigitVal(Head(digits)))

RECURSIVE StripZeros(_)
StripZeros(digits) ==
    IF digits # <<>> /\ Head(digits) = "0" THEN StripZeros(Tail(digits)) ELSE digits

RECURSIVE Pow10(_)
Pow10(e) == IF e = 0 THEN 1 ELSE 10 * Pow10(e - 1)

\* float(text[i..end-1]) for a NUMBER match: the mantissa digits D (k of them
\* significant) scaled by 10^E lie in [10^(k+E-1), 10^(k+E)); a double
\* overflows to inf from 1.8e308 and rounds to 0.0 below 2.5e-324
FloatOf(text, i, end) ==
    LET a == DigitsEnd(text, i)
        hasDot == a < end /\ text[a] = "."
        b == IF hasDot THEN DigitsEnd(text, a + 1) ELSE a
        frac == IF hasDot THEN SubSeq(text, a + 1, b - 1) ELSE <<>>
        hasExp == b < end
        neg == hasExp /\ text[b + 1] = "-"
        s == IF hasExp /\ text[b + 1] \in {"+", "-"} THEN b + 2 ELSE b + 1
        e == IF hasExp THEN NatOf(SubSeq(text, s, end - 1), 0) ELSE 0
        mant == SubSeq(text, i, a - 1) \o frac
        D == NatOf(mant, 0)
        k == Len(StripZeros(mant))
        E == (IF neg THEN -e ELSE e) - Len(frac)
        M == k + E
    IN  IF D = 0 THEN Num(0, 1)
        ELSE IF e > MaxExact THEN
            (IF ~neg /\ M >= 310 THEN Inf("pos")
             ELSE IF neg /\ M <= -324 THEN Num(0, 1)
             ELSE Unk)
        ELSE IF M >= 310 THEN Inf("pos")
        ELSE IF M <= -324 THEN Num(0, 1)
        ELSE IF D <= MaxExact /\ E >= 0 /\ E <= 4 THEN Rat(D * Pow10(E), 1)
        ELSE IF D <= MaxExact /\ E < 0 /\ E >= -9 THEN Rat(D, Pow10(-E))
        ELSE Fin("pos", (10 * (Abs(M) + 1)) \div 3 + 1)

\* mo.lastgroup of the match at i: the alternatives are tried in the order
\* of token_spec; MISMATCH takes every character the others leave
Kind(text, i) ==
    IF text[i] \in Digits THEN "NUMBER"
    ELSE IF text[i] \in Operators THEN "OPERATOR"
    ELSE IF FirstMatch(text, i, _functions) # <<>> THEN "FUNCTION"
    ELSE IF FirstMatch(text, i, ConstantNames) # <<>> THEN "CONSTANT"
    ELSE IF text[i] = "(" THEN "LPAREN"
    ELSE IF text[i] = ")" THEN "RPAREN"
    ELSE IF text[i] \in Skip THEN "SKIP"
    ELSE "MISMATCH"

\* the end (exclusive) of the match at i
MatchEnd(text, i) ==
    LET kind == Kind(text, i)
    IN  CASE kind = "NUMBER" -> NumberEnd(text, i)
          [] kind = "FUNCTION" -> i + Len(FirstMatch(text, i, _functions))
          [] kind = "CONSTANT" -> i + Len(FirstMatch(text, i, ConstantNames))
          [] OTHER -> i + 1

\* mo.group() of the match at i
Group(text, i) == Join(SubSeq(text, i, MatchEnd(text, i) - 1))

\* the body of the loop for the match at i: the tokens after it
\* ([tokens |-> ...]), or the ParserError it raises
Matched(text, i, tokens) ==
    LET kind == Kind(text, i)
    IN  CASE kind = "NUMBER" ->
                 [tokens |->
                      Append(tokens, Token("NUMBER", FloatOf(text, i, MatchEnd(text, i))))]
          [] kind = "SKIP" -> [tokens |-> tokens]
          [] kind = "MISMATCH" -> Exc("ParserError", "Invalid character: " \o Group(text, i))
          [] OTHER -> [tokens |-> Append(tokens, Token(kind, Group(text, i)))]

\* the loop over re.finditer from position i on; result is what the loop
\* has made so far
RECURSIVE TokenizeFrom(_, _, _)
TokenizeFrom(text, i, result) ==
    IF IsExc(result) \/ i > Len(text) THEN result
    ELSE TokenizeFrom(text, MatchEnd(text, i), Matched(text, i, result.tokens))

tokenize(expression) == TokenizeFrom(expression, 1, [tokens |-> <<>>])

(***************************************************************************)
(* The Parser.  self is the record of the Parser's fields _tokens, _pos    *)
(* (0-based) and _current_token.  Every method takes self and the depth d  *)
(* of its own frame on the call stack and returns Ret(self', value,        *)
(* depth): the fields after the call, the node returned or the exception   *)
(* raised, and the deepest frame reached (the constructors of the nodes    *)
(* are leaf calls no deeper than the _advance beside them).                *)
(***************************************************************************)
Number(value) == [kind |-> "Number", value |-> value]
BinOp(left, op, right) == [kind |-> "BinOp", left |-> left, op |-> op, right |-> right]
UnaryOp(op, operand) == [kind |-> "UnaryOp", op |-> op, operand |-> operand]
FunctionCall(func, arg) == [kind |-> "FunctionCall", func |-> func, arg |-> arg]

\* math.pi and math.e: positive floats whose digits are not tracked
_constants(name) == Flt("pos", 2)

\* ok: the call returned val; otherwise it raised val
Ret(self, val, depth) ==
    [self |-> self, val |-> val, depth |-> depth, ok |-> ~IsExc(val)]

\* Parser.__init__
NewParser == [_tokens |-> <<>>, _pos |-> 0, _current_token |-> None]

_advance(self) ==
    [self EXCEPT !._pos = self._pos + 1,
                 !._current_token =
                     IF self._pos + 1 < Len(self._tokens)
                     THEN self._tokens[self._pos + 2] ELSE None]

\* the guard of the three while loops
AtOperator(self, ops) ==
    /\ self._current_token # None
    /\ self._current_token.type = "OPERATOR"
    /\ self._current_token.value \in ops

\* an _expect that takes whatever token is there
ExpectAnything(self, token_type, error_msg, d) == Ret(_advance(self), None, d + 1)

_expect(self, token_type, error_msg, d) ==
    IF self._current_token = None \/ self._current_token.type # token_type
    THEN Ret(self, Exc("ParserError", error_msg), d)
    ELSE Ret(_advance(self), None, d + 1)

\* node = BinOp(node, op, right): l is the parse of the node so far, stopped
\* at the operator, and r the parse of the right operand
Fold(l, r) ==
    IF r.ok
    THEN Ret(r.self, BinOp(l.val, l.self._current_token.value, r.val),
             Max(l.depth, r.depth))
    ELSE Ret(r.self, r.val, Max(l.depth, r.depth))

\* return UnaryOp('-', ...) of the operand parsed by r
Negate(r) == IF r.ok THEN Ret(r.self, UnaryOp("-", r.val), r.depth) ELSE r

\* return FunctionCall(func, arg) of the argument parsed by arg
Call(func, arg) ==
    IF arg.ok THEN Ret(arg.self, FunctionCall(func, arg.val), arg.depth) ELSE arg

RECURSIVE _parse_expression(_, _), ExpressionLoop(_, _)
RECURSIVE _parse_term(_, _), TermLoop(_, _)
RECURSIVE _parse_factor(_, _), FactorLoop(_, _)
RECURSIVE _parse_power(_, _), _parse_atom(_, _)

\* a _parse_power whose minus takes a whole factor: -a^b as -(a^b)
LoosePower(self, d) ==
    IF AtOperator(self, {"-"}) THEN Negate(_parse_factor(_advance(self), d + 1))
    ELSE _parse_atom(self, d + 1)

_parse_expression(self, d) == ExpressionLoop(_parse_term(self, d + 1), d)

\* the while loop of _parse_expression in the frame at depth d, entered
\* with the parse r of the node so far
ExpressionLoop(r, d) ==
    IF r.ok
    THEN IF AtOperator(r.self, {"+", "-"})
         THEN ExpressionLoop(Fold(r, _parse_term(_advance(r.self), d + 1)), d)
         ELSE r
    ELSE r

_parse_term(self, d) == TermLoop(_parse_factor(self, d + 1), d)

TermLoop(r, d) ==
    IF r.ok
    THEN IF AtOperator(r.self, {"*", "/", "%"})
         THEN TermLoop(Fold(r, _parse_factor(_advance(r.self), d + 1)), d)
         ELSE r
    ELSE r

_parse_factor(self, d) == FactorLoop(_parse_power(self, d + 1), d)

\* the right operand is a _parse_factor of its own
FactorLoop(r, d) ==
    IF r.ok
    THEN IF AtOperator(r.self, {"^"})
         THEN FactorLoop(Fold(r, _parse_factor(_advance(r.self), d + 1)), d)
         ELSE r
    ELSE r

_parse_power(self, d) ==
    IF AtOperator(self, {"-"}) THEN Negate(_parse_power(_advance(self), d + 1))
    ELSE _parse_atom(self, d + 1)

\* arg = self._parse_expression() after the _expect of "(" (open), whose
\* frames lie above those that _parse_expression reaches
Argument(open, d) ==
    IF open.ok THEN _parse_expression(open.self, d + 1) ELSE open

\* the node of expr, returned after the _expect of ")" (close)
Closed(expr, close) ==
    Ret(close.self, IF close.ok THEN expr.val ELSE close.val,
        Max(expr.depth, close.depth))

\* self._expect(TokenType.RPAREN, error_msg) after the parse expr of what
\* the parentheses hold
Close(expr, error_msg, d) ==
    IF expr.ok THEN Closed(expr, _expect(expr.self, "RPAREN", error_msg, d + 1))
    ELSE expr

\* the branches on token.type; the token at the end of the tokens is None
_parse_atom(self, d) ==
    CASE self._current_token = None ->
             Ret(self, Exc("ParserError", "Unexpected end of expression"), d)
      [] self._current_token.type = "NUMBER" ->
             Ret(_advance(self), Number(self._current_token.value), d + 1)
      [] self._current_token.type = "CONSTANT" ->
             Ret(_advance(self), Number(_constants(self._current_token.value)), d + 1)
      [] self._current_token.type = "FUNCTION" ->
             Call(self._current_token.value,
                  Close(Argument(_expect(_advance(self), "LPAREN",
                                         "Expected '(' after function name", d + 1),
                                 d),
                        "Expected ')' after function argument", d))
      [] self._current_token.type = "LPAREN" ->
             Close(_parse_expression(_advance(self), d + 1),
                   "Expected ')' after expression", d)
      [] OTHER ->
             Ret(self,
                 Exc("ParserError",
                     "Expected number, function or parenthesis, got "
                         \o self._current_token.value),
                 d)

\* the assignments that open parse
Reset(tokens) ==
    [_tokens |-> tokens, _pos |-> 0,
     _current_token |-> IF tokens # <<>> THEN tokens[1] ELSE None]

\* a parse that does not set _pos back to 0
ParseKeepingCursor(self, expression, d) ==
    LET toks == tokenize(expression)
    IN  IF IsExc(toks) THEN Ret(self, toks, d + 2)
        ELSE _parse_expression(
                 [_tokens |-> toks.tokens, _pos |-> self._pos,
                  _current_token |->
                      IF toks.tokens # <<>> THEN toks.tokens[1] ELSE None],
                 d + 1)

\* a parse that rejects what _parse_expression leaves unread
StrictParse(self, expression, d) ==
    LET toks == tokenize(expression)
        r == _parse_expression(Reset(toks.tokens), d + 1)
    IN  IF IsExc(toks) THEN Ret(self, toks, d + 2)
        ELSE IF ~IsExc(r.val) /\ r.self._current_token # None
             THEN Ret(r.self, Exc("ParserError", "Unexpected token"), r.depth)
        ELSE r

\* parse leaves the fields alone when tokenize raises; under the frame of
\* tokenize lies the generator expression that joins token_spec
parse(self, expression, d) ==
    LET toks == tokenize(expression)
    IN  IF IsExc(toks) THEN Ret(self, toks, d + 2)
        ELSE _parse_expression(Reset(toks.tokens), d + 1)

(***************************************************************************)
(* Python's float arithmetic on the abstract numbers.  A result the        *)
(* abstraction cannot bound is Unk.                                        *)
(***************************************************************************)
\* the sign and the exponent bound of a non-zero num or of a flt
SgnOf(v) == IF v.k = "num" THEN (IF v.n < 0 THEN "neg" ELSE "pos") ELSE v.s
RECURSIVE Bits(_)
Bits(n) == IF n = 0 THEN 0 ELSE 1 + Bits(n \div 2)
ExpOf(v) == IF v.k = "num" THEN Max(Bits(Abs(v.n)), Bits(v.d)) ELSE v.e

MulSign(s1, s2) ==
    IF s1 = "any" \/ s2 = "any" THEN "any"
    ELSE IF s1 = "nz" \/ s2 = "nz" THEN "nz"
    ELSE IF s1 = s2 THEN "pos" ELSE "neg"

\* what v == 0 gives: "zero", "nonzero", or "unknown" to the abstraction
Zeroness(v) ==
    IF v.k = "num" THEN (IF v.n = 0 THEN "zero" ELSE "nonzero")
    ELSE IF v.k = "flt" THEN (IF v.s = "any" THEN "unknown" ELSE "nonzero")
    ELSE IF v.k \in {"inf", "nan"} THEN "nonzero"
    ELSE "unknown"

Neg(v) ==
    IF v.k = "num" THEN Num(-v.n, v.d)
    ELSE IF v.k = "flt" THEN Flt(FlipSign(v.s), v.e)
    ELSE IF v.k = "inf" THEN Inf(FlipSign(v.s))
    ELSE v

Add(a, b) ==
    IF a.k = "unk" \/ b.k = "unk" THEN Unk
    ELSE IF a.k = "complex" \/ b.k = "complex" THEN Complex
    ELSE IF a.k = "nan" \/ b.k = "nan" THEN NaN
    ELSE IF a.k = "inf" /\ b.k = "inf" THEN (IF a.s = b.s THEN a ELSE NaN)
    ELSE IF a.k = "inf" THEN a
    ELSE IF b.k = "inf" THEN b
    ELSE IF a.k = "num" /\ b.k = "num" THEN Rat(a.n * b.d + b.n * a.d, a.d * b.d)
    ELSE IF IsZero(a) THEN b
    ELSE IF IsZero(b) THEN a
    ELSE Fin(IF SgnOf(a) = SgnOf(b) /\ SgnOf(a) \in {"pos", "neg"} THEN SgnOf(a) ELSE "any",
             Max(ExpOf(a), ExpOf(b)) + 1)

Sub(a, b) == Add(a, Neg(b))

Mul(a, b) ==
    IF a.k = "unk" \/ b.k = "unk" THEN Unk
    ELSE IF a.k = "complex" \/ b.k = "complex" THEN Complex
    ELSE IF a.k = "nan" \/ b.k = "nan" THEN NaN
    ELSE IF a.k = "inf" \/ b.k = "inf" THEN
        (IF IsZero(a) \/ IsZero(b) THEN NaN
         ELSE IF (IsPos(a) \/ IsNeg(a)) /\ (IsPos(b) \/ IsNeg(b))
              THEN Inf(IF IsPos(a) = IsPos(b) THEN "pos" ELSE "neg")
         ELSE Unk)
    ELSE IF a.k = "num" /\ b.k = "num" THEN Rat(a.n * b.n, a.d * b.d)
    ELSE IF IsZero(a) \/ IsZero(b) THEN Num(0, 1)
    ELSE Fin(MulSign(SgnOf(a), SgnOf(b)), ExpOf(a) + ExpOf(b))

\* a / b for a divisor that is not zero
Div(a, b) ==
    IF a.k = "unk" \/ b.k = "unk" \/ Zeroness(b) # "nonzero" THEN Unk
    ELSE IF a.k = "complex" THEN Complex
    ELSE IF a.k = "nan" \/ b.k = "nan" THEN NaN
    ELSE IF b.k = "inf" THEN (IF a.k = "inf" THEN NaN ELSE Num(0, 1))
    ELSE IF a.k = "inf" THEN
        (IF IsPos(b) \/ IsNeg(b)
         THEN Inf(IF IsPos(a) = IsPos(b) THEN "pos" ELSE "neg") ELSE Unk)
    ELSE IF a.k = "num" /\ b.k = "num" THEN Rat(a.n * b.d, a.d * b.n)
    ELSE IF IsZero(a) THEN Num(0, 1)
    ELSE Fin(MulSign(SgnOf(a), SgnOf(b)), ExpOf(a) + ExpOf(b))

\* base^k by repeated multiplication, saturating at MaxExact + 1
RECURSIVE PowNat(_, _, _)
PowNat(base, k, acc) ==
    IF k = 0 \/ base = 1 THEN acc
    ELSE IF acc * base > MaxExact THEN MaxExact + 1
    ELSE PowNat(base, k - 1, acc * base)

RECURSIVE Pow2(_)
Pow2(e) == IF e = 0 THEN 1 ELSE 2 * Pow2(e - 1)

\* |a|^b for 2^-ExpOf(a) <= |a| <= 2^ExpOf(a) and |b| <= Bound: a float of
\* the given sign while the bound on its exponent stays in the range of a
\* double; the C library reports ERANGE from 2^1024
PowBounded(a, b, sign) ==
    LET bound == IF b.k = "num" THEN Abs(b.n) \div b.d + 1
                 ELSE IF b.e <= 10 THEN Pow2(b.e) ELSE 2000
        e == ExpOf(a) * bound
    IN  IF e <= 1020 THEN Flt(sign, e)
        ELSE IF a.k = "num" /\ Abs(a.n) >= 2 * a.d /\ b.k = "num" /\ b.n >= 1024 * b.d
             THEN Exc("OverflowError", "(34, 'Numerical result out of range')")
        ELSE Unk

\* a ** b as float_pow of CPython decides it, case by case
Pow(a, b) ==
    IF a.k = "unk" \/ b.k = "unk" \/ a.k = "complex" \/ b.k = "complex" THEN Unk
    ELSE IF IsZero(b) THEN Num(1, 1)
    ELSE IF Zeroness(b) = "unknown" THEN Unk
    ELSE IF a.k = "nan" THEN NaN
    ELSE IF b.k = "nan" THEN
        (IF a = Num(1, 1) THEN Num(1, 1) ELSE IF a.k = "flt" THEN Unk ELSE NaN)
    ELSE IF b.k = "inf" THEN
        (IF a.k = "flt" THEN Unk
         ELSE IF a.k = "num" /\ Abs(a.n) = a.d THEN Num(1, 1)
         ELSE IF (b.s = "pos") = (a.k = "inf" \/ Abs(a.n) > a.d) THEN Inf("pos")
         ELSE Num(0, 1))
    ELSE IF a.k = "inf" THEN
        (IF IsNeg(b) THEN Num(0, 1)
         ELSE IF b.k = "num" THEN (IF IsInt(b) /\ b.n % 2 = 1 THEN a ELSE Inf("pos"))
         ELSE Unk)
    ELSE IF IsZero(a) THEN
        (IF IsNeg(b) THEN Exc("ZeroDivisionError", "0.0 cannot be raised to a negative power")
         ELSE IF IsPos(b) THEN Num(0, 1)
         ELSE Unk)
    ELSE IF ~(IsPos(a) \/ IsNeg(a)) THEN Unk
    ELSE IF IsNeg(a) /\ ~IsInt(b) THEN
        \* a negative base and an exponent that is no integer: complex power
        (IF b.k = "num"
         THEN LET r == PowBounded(a, b, "nz")
              IN  IF ~IsExc(r) /\ r.k = "flt" THEN Complex ELSE r
         ELSE Unk)
    ELSE LET odd == IsInt(b) /\ b.n % 2 = 1
             sign == IF IsNeg(a) /\ odd THEN "neg" ELSE "pos"
         IN  IF a.k = "num" /\ Abs(a.n) = a.d THEN Num(IF sign = "neg" THEN -1 ELSE 1, 1)
             ELSE IF a.k = "num" /\ IsInt(b) THEN
                 LET pn == PowNat(Abs(a.n), Abs(b.n), 1)
                     pd == PowNat(a.d, Abs(b.n), 1)
                     sn == IF sign = "neg" THEN -pn ELSE pn
                 IN  IF pn > MaxExact \/ pd > MaxExact THEN PowBounded(a, b, sign)
                     ELSE IF b.n > 0 THEN Rat(sn, pd) ELSE Rat(IF sign = "neg" THEN -pd ELSE pd, pn)
             ELSE PowBounded(a, b, sign)

(***************************************************************************)
(* The math module on the abstract numbers.  sin and cos of a double are   *)
(* never 0 except sin(0), and stay above 2^-70 in magnitude.               *)
(***************************************************************************)
NotReal == Exc("TypeError", "must be real number, not complex")
DomainError == Exc("ValueError", "math domain error")

\* math.radians(arg) if the unit is degree, else arg
Radians(arg, angle_unit) ==
    IF angle_unit # "degree" \/ arg.k \in {"unk", "inf", "nan"} \/ IsZero(arg) THEN arg
    ELSE IF arg.k = "complex" THEN NotReal
    ELSE Fin(SgnOf(arg), ExpOf(arg) + 6)

MathSin(x) ==
    IF IsExc(x) \/ x.k = "unk" \/ x.k = "nan" THEN x
    ELSE IF x.k = "complex" THEN NotReal
    ELSE IF x.k = "inf" THEN DomainError
    ELSE IF IsZero(x) THEN Num(0, 1)
    ELSE IF Zeroness(x) = "nonzero" THEN Flt("nz", Max(ExpOf(x), 70) + 1)
    ELSE Flt("any", 1)

MathCos(x) ==
    IF IsExc(x) \/ x.k = "unk" \/ x.k = "nan" THEN x
    ELSE IF x.k = "complex" THEN NotReal
    ELSE IF x.k = "inf" THEN DomainError
    ELSE IF IsZero(x) THEN Num(1, 1)
    ELSE Flt("nz", 70)

MathTan(x) ==
    IF IsExc(x) \/ x.k = "unk" \/ x.k = "nan" THEN x
    ELSE IF x.k = "complex" THEN NotReal
    ELSE IF x.k = "inf" THEN DomainError
    ELSE IF IsZero(x) THEN Num(0, 1)
    ELSE IF Zeroness(x) = "nonzero" THEN Flt("nz", Max(ExpOf(x), 70) + 1)
    ELSE Flt("any", 71)

\* math.atan(arg), times 180/pi if the unit is degree
ArcTan(arg, angle_unit) ==
    IF arg.k = "unk" \/ arg.k = "nan" THEN arg
    ELSE IF arg.k = "complex" THEN NotReal
    ELSE IF arg.k = "inf" THEN Flt(arg.s, 8)
    ELSE IF IsZero(arg) THEN Num(0, 1)
    ELSE IF SgnOf(arg) = "any" THEN Flt("any", 8)
    ELSE Fin(SgnOf(arg), ExpOf(arg) + 8)

\* math.log(arg) for an arg that passed the test arg <= 0
MathLog(arg) ==
    IF arg.k \in {"nan", "inf"} THEN arg
    ELSE IF arg.k = "num" THEN
        (IF arg.n = arg.d THEN Num(0, 1)
         ELSE Flt(IF arg.n > arg.d THEN "pos" ELSE "neg", 16))
    ELSE Flt("any", 10)

\* math.exp(arg): OverflowError above 709.78, 0.0 below -745.2
MathExp(arg) ==
    IF arg.k = "unk" \/ arg.k = "nan" THEN arg
    ELSE IF arg.k = "complex" THEN NotReal
    ELSE IF arg.k = "inf" THEN (IF arg.s = "pos" THEN Inf("pos") ELSE Num(0, 1))
    ELSE IF arg.k = "num" THEN
        (IF arg.n = 0 THEN Num(1, 1)
         ELSE IF arg.n >= 710 * arg.d THEN Exc("OverflowError", "math range error")
         ELSE IF arg.n <= -746 * arg.d THEN Num(0, 1)
         ELSE IF Abs(arg.n) <= 499 * arg.d THEN Flt("pos", 2 * (Abs(arg.n) \div arg.d + 1))
         ELSE Unk)
    ELSE IF arg.e <= 8 THEN Flt("pos", 370)
    ELSE Unk

\* the largest r with r * r <= n
RECURSIVE SqrtFloor(_, _)
SqrtFloor(n, r) == IF (r + 1) * (r + 1) > n THEN r ELSE SqrtFloor(n, r + 1)

\* math.sqrt(arg) for an arg that passed the test arg < 0
MathSqrt(arg) ==
    IF arg.k \in {"nan", "inf"} THEN arg
    ELSE IF arg.k = "num" THEN
        LET rn == SqrtFloor(arg.n, 0)
            rd == SqrtFloor(arg.d, 0)
        IN  IF rn * rn = arg.n /\ rd * rd = arg.d THEN Num(rn, rd) ELSE Flt("pos", 8)
    ELSE Flt("pos", arg.e \div 2 + 1)

(***************************************************************************)
(* Evaluator.evaluate(node) in the frame at depth d: Ret(<<>>, value or    *)
(* exception, deepest frame reached).                                      *)
(***************************************************************************)
TypeOf(node) == "<class 'calculator." \o node.kind \o "'>"

UnknownNode(node) == Exc("EvaluationError", "Unknown node type: " \o TypeOf(node))

\* a '/' without the test of the divisor: Python's own ZeroDivisionError
DivideUnchecked(left, right) ==
    IF Zeroness(right) = "zero" THEN Exc("ZeroDivisionError", "float division by zero")
    ELSE Div(left, right)

\* the branch of '/'
Divide(left, right) ==
    IF Zeroness(right) = "zero" THEN Exc("EvaluationError", "Division by zero")
    ELSE Div(left, right)

\* the try block of '^' and of exp: OverflowError and an infinite result
\* become "Numerical overflow", every other exception passes
Overflow(result, infinite) ==
    IF IsExc(result) THEN
        (IF result.exc = "OverflowError"
         THEN Exc("EvaluationError", "Numerical overflow") ELSE result)
    ELSE IF result.k = "inf" /\ result.s \in infinite
         THEN Exc("EvaluationError", "Numerical overflow")
    ELSE result

Power(left, right) == Overflow(Pow(left, right), {"pos", "neg"})

\* a BinOp with a branch for '%' (the remainder is not computed: a float)
BinOpValueWithRemainder(node, left, right) ==
    IF node.op = "+" THEN Add(left, right)
    ELSE IF node.op = "-" THEN Sub(left, right)
    ELSE IF node.op = "*" THEN Mul(left, right)
    ELSE IF node.op = "/" THEN Divide(left, right)
    ELSE IF node.op = "^" THEN Power(left, right)
    ELSE Flt("any", 1020)

\* a BinOp whose operands evaluated to left and right; an operator without
\* a branch falls through to the raise that ends evaluate
BinOpValue(node, left, right) ==
    IF node.op = "+" THEN Add(left, right)
    ELSE IF node.op = "-" THEN Sub(left, right)
    ELSE IF node.op = "*" THEN Mul(left, right)
    ELSE IF node.op = "/" THEN Divide(left, right)
    ELSE IF node.op = "^" THEN Power(left, right)
    ELSE UnknownNode(node)

Cotangent(tan) ==
    IF IsExc(tan) \/ tan = Unk THEN tan
    ELSE IF Zeroness(tan) = "zero" THEN Exc("EvaluationError", "Cotangent is undefined")
    ELSE Div(Num(1, 1), tan)

\* arg <= 0 is a TypeError on a complex number
Logarithm(arg) ==
    IF arg.k = "complex"
    THEN Exc("TypeError", "'<=' not supported between instances of 'complex' and 'int'")
    ELSE IF IsZero(arg) \/ IsNeg(arg)
         THEN Exc("EvaluationError", "Logarithm is only defined for positive numbers")
    ELSE IF arg.k = "flt" /\ arg.s # "pos" THEN Unk
    ELSE MathLog(arg)

Exponential(arg) == Overflow(MathExp(arg), {"pos"})

SquareRoot(arg) ==
    IF arg.k = "complex"
    THEN Exc("TypeError", "'<' not supported between instances of 'complex' and 'int'")
    ELSE IF IsNeg(arg)
         THEN Exc("EvaluationError", "Square root is only defined for non-negative numbers")
    ELSE IF arg.k = "flt" /\ arg.s # "pos" THEN Unk
    ELSE MathSqrt(arg)

\* a FunctionCall whose argument evaluated to arg
FunctionValue(node, arg, angle_unit) ==
    CASE node.func = "sin" -> MathSin(Radians(arg, angle_unit))
      [] node.func = "cos" -> MathCos(Radians(arg, angle_unit))
      [] node.func = "tg" -> MathTan(Radians(arg, angle_unit))
      [] node.func = "ctg" -> Cotangent(MathTan(Radians(arg, angle_unit)))
      [] node.func = "arctan" -> ArcTan(arg, angle_unit)
      [] node.func = "ln" -> Logarithm(arg)
      [] node.func = "exp" -> Exponential(arg)
      [] node.func = "sqrt" -> SquareRoot(arg)
      [] OTHER -> UnknownNode(node)

\* the BinOp branch after the evaluation of the operands (l, r): the left
\* operand is evaluated before the right one, and an exception ends the
\* evaluation where it is raised
BinOpResult(node, l, r) ==
    IF l.ok => l.val = Unk THEN l
    ELSE IF r.ok => r.val = Unk THEN Ret(<<>>, r.val, Max(l.depth, r.depth))
    ELSE Ret(<<>>, BinOpValue(node, l.val, r.val), Max(l.depth, r.depth))

\* the UnaryOp branch after the evaluation of the operand (o)
UnaryOpResult(node, o) ==
    IF o.ok THEN Ret(<<>>, IF node.op = "-" THEN Neg(o.val) ELSE o.val, o.depth)
    ELSE o

\* the FunctionCall branch after the evaluation of the argument (a)
FunctionCallResult(node, a, angle_unit) ==
    IF a.ok => a.val = Unk THEN a
    ELSE Ret(<<>>, FunctionValue(node, a.val, angle_unit), a.depth)

\* evaluate(node) in a frame at depth d: Ret(<<>>, value or exception,
\* deepest frame)
RECURSIVE evaluate(_, _, _)
evaluate(node, angle_unit, d) ==
    CASE node.kind = "Number" -> Ret(<<>>, node.value, d)
      [] node.kind = "BinOp" ->
             BinOpResult(node, evaluate(node.left, angle_unit, d + 1),
                         evaluate(node.right, angle_unit, d + 1))
      [] node.kind = "UnaryOp" ->
             UnaryOpResult(node, evaluate(node.operand, angle_unit, d + 1))
      [] node.kind = "FunctionCall" ->
             FunctionCallResult(node, evaluate(node.arg, angle_unit, d + 1), angle_unit)
      [] OTHER -> Ret(<<>>, UnknownNode(node), d)

(***************************************************************************)
(* Calculator.calculate.  Its frame is depth 1 of the call stack; the      *)
(* interpreter raises RecursionError past the limit set at import.         *)
(***************************************************************************)
RecursionLimit == 10000

Return(value) == IF value = Unk THEN [kind |-> "unknown"] ELSE [kind |-> "return", value |-> value]
Raise(e) == [kind |-> "raise", exc |-> e.exc, msg |-> e.msg]
Overflowed(r) ==
    IF r.depth > RecursionLimit
    THEN Ret(r.self, Exc("RecursionError", "maximum recursion depth exceeded"), r.depth)
    ELSE r

\* a calculate without the second except clause
Propagate(e) == Raise(e)

\* what the except clauses of calculate make of an exception raised in the try
Handle(e) ==
    IF e.exc \in {"ParserError", "EvaluationError", "CalculatorError"} THEN Raise(e)
    ELSE Raise(Exc("CalculatorError", "Unexpected error: " \o e.msg))

\* the end of calculate after ast = self.parser.parse(expression) (p) and
\* self.evaluator.evaluate(ast) (v)
Evaluated(p, v) ==
    [self |-> p.self, ast |-> p.val,
     raised |-> IF v.ok THEN None ELSE v.val,
     outcome |-> IF v.ok THEN Return(v.val) ELSE Handle(v.val),
     depth |-> Max(p.depth, v.depth)]

\* the try block of calculate after the call of parse (p)
Try(p, angle_unit) ==
    IF p.ok THEN Evaluated(p, Overflowed(evaluate(p.val, angle_unit, 2)))
    ELSE [self |-> p.self, ast |-> None, raised |-> p.val,
          outcome |-> Handle(p.val), depth |-> p.depth]

\* the call on a Calculator whose Parser has the fields self: the Parser's
\* fields after the call, the local ast (None if parse raised), the
\* exception raised in the try (None if none), the outcome of the call and
\* the deepest frame reached
calculate(self, angle_unit, expression) ==
    Try(Overflowed(parse(self, expression, 2)), angle_unit)

(***************************************************************************)
(* The state: the fields of the Calculator's Parser and Evaluator, and of  *)
(* the last call its argument, its locals and its outcome.                 *)
(***************************************************************************)
VARIABLES _tokens, _pos, _current_token, angle_unit,
          expression, ast, raised, outcome, depth

vars == <<_tokens, _pos, _current_token, angle_unit,
          expression, ast, raised, outcome, depth>>

\* all texts of at most n pieces of the alphabet
RECURSIVE Words(_, _)
Words(alphabet, n) ==
    IF n = 0 THEN {<<>>}
    ELSE LET shorter == Words(alphabet, n - 1)
         IN  shorter \cup {w \o a : w \in shorter, a \in alphabet}

(***************************************************************************)
(* The texts of a session of calls on one Calculator: short texts that     *)
(* fail in the tokenizer ("."), stop in the middle of the tokens, divide   *)
(* by zero or succeed, and calls of functions that read the angle unit    *)
(* or fail in the evaluator.                                               *)
(***************************************************************************)
MaxLen == 2
Alphabet == {<<"0">>, <<"/">>, <<"(">>, <<".">>}
FunctionTexts ==
    {<<"a", "r", "c", "t", "a", "n", "(", "1", ")">>, <<"c", "t", "g", "(", "0", ")">>}
Texts == Words(Alphabet, MaxLen) \cup FunctionTexts

(***************************************************************************)
(* The texts of a first call on a fresh Calculator.                        *)
(***************************************************************************)
\* operands 0, 2 and 1.5 under the operators of the three binary levels
MaxOperators == 4
OperatorAlphabet ==
    {<<"0">>, <<"2">>, <<"1", ".", "5">>, <<"-">>, <<"/">>, <<"^">>, <<"%">>}
\* longer operator chains
MaxPrecedence == 5
PrecedenceAlphabet ==
    {<<"2">>, <<"-">>, <<"/">>, <<"^">>}
\* parentheses, a function and what can go missing around them, with at
\* most MaxNesting opening parentheses
MaxGrouping == 5
MaxNesting == 3
GroupingAlphabet ==
    {<<"1">>, <<"-">>, <<"(">>, <<")">>, <<"l", "n">>}
Opened(text) == Cardinality({i \in DOMAIN text : text[i] = "("})
Groupings ==
    {text \in Words(GroupingAlphabet, MaxGrouping) : Opened(text) <= MaxNesting}
\* every function on arguments in and out of its domain
FunctionNames == {_functions[k] : k \in DOMAIN _functions}
Arguments ==
    {
     <<"0">>, <<"-", "0">>, <<"1">>, <<"-", "1">>, <<"2">>, <<"4">>,
     <<"9", "0">>, <<"4", "5">>, <<"p", "i">>, <<"e">>, <<"1", "/", "0">>,
     <<"1", "e", "9", "9", "9">>, <<"-", "1", "e", "9", "9", "9">>,
     <<"-", "1", "^", "1", ".", "5">>, <<"7", "1", "0">>,
     <<"7", "0", "9">>, <<"-", "7", "4", "6">>,
     <<"1", "e", "9", "9", "9", "-", "1", "e", "9", "9", "9">>,
     <<"0", ".", "5">>
    }
FunctionCalls == {f \o <<"(">> \o a \o <<")">> : f \in FunctionNames, a \in Arguments}
\* the texts of the tests and of the documentation, and others like them
Examples ==
    {
     <<"2", "+", "3">>, <<"5", "-", "2">>, <<"3", "*", "4">>,
     <<"1", "0", "/", "2">>, <<"2", "^", "3">>,
     <<"2", "+", "3", "*", "4">>, <<"(", "2", "+", "3", ")", "*", "4">>,
     <<"2", "*", "-", "3">>, <<"8", "^", "(", "1", "/", "3", ")">>,
     <<"3", ".", "1", "4">>, <<"1", "e", "5">>,
     <<"1", ".", "2", "5", "e", "+", "0", "9">>, <<"-", "5">>,
     <<"s", "i", "n", "(", "p", "i", "/", "2", ")">>,
     <<"l", "n", "(", "e", ")">>, <<"p", "i">>, <<"e">>, <<"2", "/">>,
     <<"s", "i", "n", "(">>,
     <<"1", " ", "+", " ", "(", "2", " ", "*", " ", "3">>,
     <<"3", ".", "3", "7", "5", "e", "+", "0", "9", "^", "(", "1", "/", "3", ")">>,
     <<"1", "e", "3", "0", "0", " ", "+", " ", "1", "e", "3", "0", "0", "0", "0">>,
     <<"1", " ", "^", " ", "3", "6", "8", "9", "3", "4", "8", "8", "1", "4", "7", "4", "1", "9", "1", "0", "3", "2", "3", "2">>,
     <<"-", "2", "^", "2">>, <<"2", "^", "3", "^", "2">>,
     <<"2", "-", "3", "-", "4">>, <<"2", "*", "3", "%", "4">>,
     <<"2", "%", "3", "*", "4">>, <<"2", "+", "3", "%", "4">>, <<>>,
     <<" ", " ">>, <<"2", ")">>, <<"2", " ", "3">>, <<"2", "p", "i">>,
     <<"(", "1", "+", "2", ")", "(", "3", ")">>, <<"2", "%", "3">>,
     <<"(", "1", "/", "0", ")", "%", "2">>,
     <<"2", "%", "(", "1", "/", "0", ")">>,
     <<"(", "1", "/", "0", ")", "%", "(", "0", "^", "-", "1", ")">>,
     <<"1", "/", "(", "1", "-", "1", ")">>,
     <<"l", "n", "(", "1", "-", "1", ")">>,
     <<"s", "q", "r", "t", "(", "0", "-", "1", ")">>,
     <<"s", "q", "r", "t", "(", "1", "-", "1", ")">>,
     <<"1", "/", "(", "0", "*", "2", ")">>, <<"1", "/", "-", "0">>,
     <<"2", "/", "0", ".", "0">>,
     <<"1", "/", "1", "e", "-", "4", "0", "0">>, <<"0", "^", "-", "1">>,
     <<"-", "2", "^", "0", ".", "5">>, <<"2", "^", "1", "0", "2", "4">>,
     <<"2", "^", "1", "0", "2", "3">>,
     <<"2", "^", "-", "1", "1", "0", "0">>,
     <<"1", "0", "^", "4", "0", "0">>,
     <<"1", "e", "3", "0", "8", "*", "1", "0">>,
     <<"1", "e", "-", "3", "2", "0">>, <<"1", "e", "-", "3", "3", "0">>,
     <<"(", "0", "-", "8", ")", "^", "(", "1", "/", "3", ")">>,
     <<"2", "^", "2", "^", "2", "^", "2", "^", "2">>,
     <<"1", "e", "9", "9", "9", "-", "1", "e", "9", "9", "9">>,
     <<"1", "e", "9", "9", "9">>, <<".", "5">>, <<"1", ".">>, <<"2", "e">>,
     <<"1", "+", "*", "2">>, <<"s", "i", "n", " ", "1">>,
     <<"s", "i", "n">>, <<"c", "o", "s", "(", "1">>,
     <<"(", "(", "1", ")">>, <<"(", "1">>, <<"-">>, <<"(">>,
     <<"2", " ", "$">>, <<"-", "-", "2">>, <<"2", "-", "-", "2">>,
     <<"-", "(", "2", ")">>,
     <<"l", "n", "(", "s", "q", "r", "t", "(", "4", ")", ")">>, <<"x">>
    }
\* "1+1+...+1" of n terms
MaxChain == 9
RECURSIVE Chain(_)
Chain(n) == IF n = 1 THEN <<"1">> ELSE Chain(n - 1) \o <<"+", "1">>
Chains == {Chain(n) : n \in 1..MaxChain}

CallTexts ==
    Words(OperatorAlphabet, MaxOperators) \cup Words(PrecedenceAlphabet, MaxPrecedence)
        \cup Groupings \cup FunctionCalls \cup Examples \cup Chains

Init ==
    /\ _tokens = NewParser._tokens
    /\ _pos = NewParser._pos
    /\ _current_token = NewParser._current_token
    /\ angle_unit \in {"radian", "degree"}
    /\ expression = <<>>
    /\ ast = None
    /\ raised = None
    /\ outcome = [kind |-> "none"]
    /\ depth = 0

\* the Calculator and the record of the call after the call (call)
Store(text, call) ==
    /\ _tokens' = call.self._tokens
    /\ _pos' = call.self._pos
    /\ _current_token' = call.self._current_token
    /\ expression' = text
    /\ ast' = call.ast
    /\ raised' = call.raised
    /\ outcome' = call.outcome
    /\ depth' = call.depth
    /\ UNCHANGED angle_unit

Calculate(text) ==
    Store(text,
          calculate([_tokens |-> _tokens, _pos |-> _pos,
                     _current_token |-> _current_token],
                    angle_unit, text))

Next == \E text \in Texts : Calculate(text)

Spec == Init /\ [][Next]_vars

\* the first call on a fresh Calculator
FirstCall == outcome.kind = "none" /\ \E text \in CallTexts : Calculate(text)

SpecCall == Init /\ [][FirstCall]_vars

(***************************************************************************)
(* The claims.  Called: a call has been made.  A value the abstraction     *)
(* does not track (Unk, outcome "unknown") settles nothing either way.     *)
(***************************************************************************)
Called == outcome.kind # "none"
Returns(n) == outcome = Return(Num(n, 1))
Raises(type, msg) == outcome = Raise(Exc(type, msg))
Tokens == tokenize(expression)

\* the grammar, as a relation between a token sequence and a tree:
\*   expression := term (('+'|'-') term)*       folding left
\*   term       := factor (('*'|'/'|'%') factor)*   folding left
\*   factor     := power ('^' factor)?
\*   power      := '-' power | atom
\*   atom       := NUMBER | CONSTANT | FUNCTION '(' expression ')' | '(' expression ')'
RECURSIVE IsExpression(_, _), IsTerm(_, _), IsFactor(_, _), IsPower(_, _), IsAtom(_, _)
IsOperator(token, ops) == token.type = "OPERATOR" /\ token.value \in ops
IsExpression(toks, tree) ==
    \/ IsTerm(toks, tree)
    \/ /\ tree.kind = "BinOp"
       /\ tree.op \in {"+", "-"}
       /\ \E k \in 2..(Len(toks) - 1) :
             /\ IsOperator(toks[k], {tree.op})
             /\ IsExpression(SubSeq(toks, 1, k - 1), tree.left)
             /\ IsTerm(SubSeq(toks, k + 1, Len(toks)), tree.right)
IsTerm(toks, tree) ==
    \/ IsFactor(toks, tree)
    \/ /\ tree.kind = "BinOp"
       /\ tree.op \in {"*", "/", "%"}
       /\ \E k \in 2..(Len(toks) - 1) :
             /\ IsOperator(toks[k], {tree.op})
             /\ IsTerm(SubSeq(toks, 1, k - 1), tree.left)
             /\ IsFactor(SubSeq(toks, k + 1, Len(toks)), tree.right)
IsFactor(toks, tree) ==
    \/ IsPower(toks, tree)
    \/ /\ tree.kind = "BinOp"
       /\ tree.op = "^"
       /\ \E k \in 2..(Len(toks) - 1) :
             /\ IsOperator(toks[k], {"^"})
             /\ IsPower(SubSeq(toks, 1, k - 1), tree.left)
             /\ IsFactor(SubSeq(toks, k + 1, Len(toks)), tree.right)
IsPower(toks, tree) ==
    \/ IsAtom(toks, tree)
    \/ /\ tree.kind = "UnaryOp"
       /\ Len(toks) >= 2
       /\ IsOperator(toks[1], {"-"})
       /\ tree.op = "-"
       /\ IsPower(Tail(toks), tree.operand)
IsAtom(toks, tree) ==
    \/ /\ Len(toks) = 1
       /\ toks[1].type = "NUMBER"
       /\ tree = Number(toks[1].value)
    \/ /\ Len(toks) = 1
       /\ toks[1].type = "CONSTANT"
       /\ tree = Number(_constants(toks[1].value))
    \/ /\ Len(toks) >= 3
       /\ toks[1].type = "LPAREN"
       /\ toks[Len(toks)].type = "RPAREN"
       /\ IsExpression(SubSeq(toks, 2, Len(toks) - 1), tree)
    \/ /\ Len(toks) >= 4
       /\ toks[1].type = "FUNCTION"
       /\ toks[2].type = "LPAREN"
       /\ toks[Len(toks)].type = "RPAREN"
       /\ tree.kind = "FunctionCall"
       /\ tree.func = toks[1].value
       /\ IsExpression(SubSeq(toks, 3, Len(toks) - 1), tree.arg)

(* C1: whenever parse returns a tree, the tokens it has read derive that   *)
(* tree in the grammar: + and - loosest and folding left, * / % tighter    *)
(* and folding left, ^ tighter and folding right, unary minus tightest;    *)
(* so calculate("-2^2") is 4, and parentheses override: "(2+3)*4" is 20.   *)
C1_GrammarTree ==
    /\ Called /\ ast # None => IsExpression(SubSeq(_tokens, 1, _pos), ast)
    /\ expression = <<"-", "2", "^", "2">> => Returns(4)
    /\ expression = <<"(", "2", "+", "3", ")", "*", "4">> => Returns(20)
    /\ expression = <<"2", "+", "3", "*", "4">> => Returns(14)

C1_Witness ==
    /\ expression = <<"-", "2", "^", "2">>
    /\ ast = BinOp(UnaryOp("-", Number(Num(2, 1))), "^", Number(Num(2, 1)))
    /\ Returns(4)

(* C2: an exception raised by parse or evaluate reaches the caller         *)
(* unchanged if it is a ParserError or an EvaluationError, and as a plain  *)
(* CalculatorError carrying its message otherwise; nothing else is raised. *)
C2_Taxonomy ==
    Called =>
        /\ raised = None => outcome.kind # "raise"
        /\ raised # None /\ raised.exc \in {"ParserError", "EvaluationError"} =>
               Raises(raised.exc, raised.msg)
        /\ raised # None /\ raised.exc \notin {"ParserError", "EvaluationError"} =>
               Raises("CalculatorError", "Unexpected error: " \o raised.msg)
        /\ outcome.kind = "raise" =>
               outcome.exc \in {"ParserError", "EvaluationError", "CalculatorError"}

C2_Witness ==
    /\ raised = Exc("ValueError", "math domain error")
    /\ Raises("CalculatorError", "Unexpected error: math domain error")

(* C3, as stated: a call that fails in tokenize or parse raises            *)
(* ParserError, and a call that fails in evaluate raises EvaluationError.  *)
C3_AsStated ==
    Called /\ outcome.kind = "raise" =>
        outcome.exc = IF ast = None THEN "ParserError" ELSE "EvaluationError"

(* C4, as stated: a call returns one real float or raises a                *)
(* CalculatorError (ParserError and EvaluationError are CalculatorErrors). *)
C4_AsStated ==
    Called =>
        \/ outcome.kind = "unknown"
        \/ outcome.kind = "return" /\ outcome.value.k \in {"num", "flt", "inf", "nan"}
        \/ outcome.kind = "raise" /\
               outcome.exc \in {"ParserError", "EvaluationError", "CalculatorError"}

\* the tokens read from left to right with the open parentheses on a stack:
\* where an operand is needed (need) and where one has just ended
Accepted(read) == [result |-> "accepted", read |-> read]
Rejected(msg) == [result |-> "rejected", msg |-> msg]
Reading(i, open, need) == [result |-> "reading", i |-> i, open |-> open, need |-> need]
\* the scan after the token at at.i
Read(toks, at) ==
    LET i == at.i
        open == at.open
        token == IF i <= Len(toks) THEN toks[i] ELSE None
    IN  IF at.need THEN
            IF token = None THEN Rejected("Unexpected end of expression")
            ELSE IF token.type \in {"NUMBER", "CONSTANT"} THEN Reading(i + 1, open, FALSE)
            ELSE IF IsOperator(token, {"-"}) THEN Reading(i + 1, open, TRUE)
            ELSE IF token.type = "LPAREN" THEN Reading(i + 1, Append(open, "expression"), TRUE)
            ELSE IF token.type = "FUNCTION" THEN
                (IF i < Len(toks) /\ toks[i + 1].type = "LPAREN"
                 THEN Reading(i + 2, Append(open, "function argument"), TRUE)
                 ELSE Rejected("Expected '(' after function name"))
            ELSE Rejected("Expected number, function or parenthesis, got " \o token.value)
        ELSE IF token # None /\ token.type = "OPERATOR" THEN Reading(i + 1, open, TRUE)
        ELSE IF open = <<>> THEN Accepted(i - 1)
        ELSE IF token # None /\ token.type = "RPAREN"
             THEN Reading(i + 1, SubSeq(open, 1, Len(open) - 1), FALSE)
        ELSE Rejected("Expected ')' after " \o open[Len(open)])
RECURSIVE Scan(_, _)
Scan(toks, at) == IF at.result = "reading" THEN Scan(toks, Read(toks, at)) ELSE at
Scanned == Scan(Tokens.tokens, Reading(1, <<>>, TRUE))

(* C5: a text whose tokens end where an operand is needed (no token at     *)
(* all, after an operator, after a unary minus, after '(') raises          *)
(* ParserError "Unexpected end of expression"; a function name without     *)
(* '(' and a '(' or function argument without its ')' raise the            *)
(* ParserError naming what was expected; none of them yields a value.      *)
C5_Malformed ==
    /\ Called /\ ~IsExc(Tokens) /\ Scanned.result = "rejected" =>
           ast = None /\ Raises("ParserError", Scanned.msg)
    /\ Called /\ expression \in {<<>>, <<" ", " ">>, <<"2", "/">>, <<"-">>, <<"s", "i", "n", "(">>, <<"(">>} =>
           Raises("ParserError", "Unexpected end of expression")
    /\ Called /\ expression \in {<<"s", "i", "n">>, <<"s", "i", "n", " ", "1">>} =>
           Raises("ParserError", "Expected '(' after function name")
    /\ Called /\ expression = <<"c", "o", "s", "(", "1">> =>
           Raises("ParserError", "Expected ')' after function argument")
    /\ Called /\ expression = <<"1", " ", "+", " ", "(", "2", " ", "*", " ", "3">> =>
           Raises("ParserError", "Expected ')' after expression")

C5_Witness ==
    /\ expression = <<"1", " ", "+", " ", "(", "2", " ", "*", " ", "3">>
    /\ _pos = Len(_tokens)
    /\ ast = None
    /\ Raises("ParserError", "Expected ')' after expression")

\* every node of a tree
RECURSIVE Nodes(_)
Nodes(tree) ==
    {tree} \cup
        CASE tree.kind = "BinOp" -> Nodes(tree.left) \cup Nodes(tree.right)
          [] tree.kind = "UnaryOp" -> Nodes(tree.operand)
          [] tree.kind = "FunctionCall" -> Nodes(tree.arg)
          [] OTHER -> {}
Value(node) == evaluate(node, angle_unit, 2).val
IsReal(v) == ~IsExc(v) /\ v.k \in {"num", "flt", "inf"}
DivisionByZero == Exc("EvaluationError", "Division by zero")
LogarithmDomain == Exc("EvaluationError", "Logarithm is only defined for positive numbers")
SquareRootDomain ==
    Exc("EvaluationError", "Square root is only defined for non-negative numbers")
DomainErrors == {DivisionByZero, LogarithmDomain, SquareRootDomain}
NoneOf(v, errors) == ~IsExc(v) \/ v \notin errors

(* C6: in every tree evaluated, a '/' whose operands evaluate and whose    *)
(* right operand is exactly 0 raises EvaluationError "Division by zero",   *)
(* ln of a value <= 0 and sqrt of a value < 0 raise their EvaluationError, *)
(* and with a non-zero divisor, a positive ln argument or a non-negative   *)
(* sqrt argument none of the three is raised by that node.                 *)
C6_DomainErrors ==
    Called /\ ast # None =>
        \A node \in Nodes(ast) :
            /\ node.kind = "BinOp" /\ node.op = "/"
                   /\ ~IsExc(Value(node.left)) /\ Value(node.left) # Unk
                   /\ IsReal(Value(node.right)) =>
                   /\ Zeroness(Value(node.right)) = "zero" => Value(node) = DivisionByZero
                   /\ Zeroness(Value(node.right)) = "nonzero" =>
                          NoneOf(Value(node), DomainErrors)
            /\ node.kind = "FunctionCall" /\ node.func = "ln" /\ IsReal(Value(node.arg)) =>
                   /\ IsZero(Value(node.arg)) \/ IsNeg(Value(node.arg)) =>
                          Value(node) = LogarithmDomain
                   /\ IsPos(Value(node.arg)) => NoneOf(Value(node), DomainErrors)
            /\ node.kind = "FunctionCall" /\ node.func = "sqrt" /\ IsReal(Value(node.arg)) =>
                   /\ IsNeg(Value(node.arg)) => Value(node) = SquareRootDomain
                   /\ IsZero(Value(node.arg)) \/ IsPos(Value(node.arg)) =>
                          NoneOf(Value(node), DomainErrors)
            /\ node = ast /\ IsExc(Value(node)) /\ Value(node) \in DomainErrors =>
                   Raises("EvaluationError", Value(node).msg)

C6_Witness ==
    /\ expression = <<"1", "/", "(", "1", "-", "1", ")">>
    /\ ast.kind = "BinOp"
    /\ Value(ast.right) = Num(0, 1)
    /\ Raises("EvaluationError", "Division by zero")

(* C7: every call gives the outcome that the same text gives on a fresh    *)
(* Calculator of the same angle unit, whatever the calls before it left    *)
(* in the Parser.                                                          *)
C7_Independent ==
    [][outcome' = calculate(NewParser, angle_unit, expression').outcome]_vars

\* a call that failed in the tokenizer after a call that stopped before the
\* last token: the Parser still holds the earlier tokens and cursor
C7_Witness ==
    /\ Raises("ParserError", "Invalid character: .")
    /\ _pos > 0
    /\ _pos < Len(_tokens)
    /\ _current_token = _tokens[_pos + 1]

(* C8: when the tokens are a complete expression followed by tokens that   *)
(* cannot continue it, parse returns the tree of the leading expression    *)
(* and the call has the outcome of the leading expression alone, never a   *)
(* ParserError: "2)", "2 3" and "2pi" give 2, "(1+2)(3)" gives 3.          *)
C8_TrailingTokens ==
    /\ Called /\ ~IsExc(Tokens) /\ Scanned.result = "accepted"
           /\ Scanned.read < Len(Tokens.tokens) =>
           LET leading == SubSeq(Tokens.tokens, 1, Scanned.read)
               alone == _parse_expression(Reset(leading), 3).val
           IN  /\ ast = alone
               /\ IsExpression(leading, ast)
               /\ _pos = Scanned.read
               /\ outcome = IF IsExc(Value(alone)) THEN Handle(Value(alone))
                            ELSE Return(Value(alone))
               /\ ~(outcome.kind = "raise" /\ outcome.exc = "ParserError")
    /\ Called /\ expression \in {<<"2", ")">>, <<"2", " ", "3">>, <<"2", "p", "i">>} => Returns(2)
    /\ Called /\ expression = <<"(", "1", "+", "2", ")", "(", "3", ")">> => Returns(3)

C8_Witness ==
    /\ expression = <<"(", "1", "+", "2", ")", "(", "3", ")">>
    /\ _pos = 5
    /\ _current_token = Token("LPAREN", "(")
    /\ Returns(3)

\* the text and the tree with '*' for every '%'
TimesForRemainder(text) == [i \in DOMAIN text |-> IF text[i] = "%" THEN "*" ELSE text[i]]
RECURSIVE Relabel(_)
Relabel(tree) ==
    CASE tree.kind = "BinOp" ->
             BinOp(Relabel(tree.left), IF tree.op = "%" THEN "*" ELSE tree.op,
                   Relabel(tree.right))
      [] tree.kind = "UnaryOp" -> UnaryOp(tree.op, Relabel(tree.operand))
      [] tree.kind = "FunctionCall" -> FunctionCall(tree.func, Relabel(tree.arg))
      [] OTHER -> tree
UnknownBinOp == Exc("EvaluationError", "Unknown node type: <class 'calculator.BinOp'>")

(* C9: '%' parses as '*' does (the tree of a text is the tree of the text  *)
(* with '*' for each '%', relabelled), and evaluating a '%' node raises    *)
(* the left operand's exception, else the right operand's, else            *)
(* EvaluationError "Unknown node type"; it never gives a number.           *)
C9_Remainder ==
    Called /\ ast # None =>
        /\ Relabel(ast) = parse(NewParser, TimesForRemainder(expression), 2).val
        /\ \A node \in Nodes(ast) :
               node.kind = "BinOp" /\ node.op = "%" =>
                   IF IsExc(Value(node.left)) THEN Value(node) = Value(node.left)
                   ELSE IF Value(node.left) = Unk THEN TRUE
                   ELSE IF IsExc(Value(node.right)) THEN Value(node) = Value(node.right)
                   ELSE Value(node.right) = Unk \/ Value(node) = UnknownBinOp
        /\ ast.kind = "BinOp" /\ ast.op = "%" => outcome.kind # "return"

C9_Witness ==
    /\ expression = <<"2", "%", "3">>
    /\ ast = BinOp(Number(Num(2, 1)), "%", Number(Num(3, 1)))
    /\ outcome = Raise(UnknownBinOp)

(* C10, as stated: a call on n terms joined by '+' reaches the depth of    *)
(* the call on one term, whatever n, and returns n.                        *)
C10_AsStated ==
    \A n \in 1..MaxChain :
        Called /\ expression = Chain(n) =>
            /\ depth = calculate(NewParser, angle_unit, Chain(1)).depth
            /\ Returns(n)

====
